---------------------------- MODULE Spec2Model ----------------------------
(***************************************************************************)
(* A model of texar/data/data/data_base.py: the data sources and their     *)
(* combinators, the _CachedDataSource adapter and the DataBase engine.     *)
(*                                                                         *)
(* Raw examples are small integers.  Indices are 0-based as in the code;   *)
(* a Python list or dict is a function whose domain is a set of 0-based    *)
(* indices (a list has the domain 0..n-1).  The user's sequence `seq` is a *)
(* TLA+ sequence, so the element at Python index k is seq[k + 1].          *)
(***************************************************************************)
EXTENDS Integers, Sequences, FiniteSets, TLC

(* Bounds of the model. *)
MaxLen == 3
MaxBatch == 2
MaxMembers == 2

(* 10 ** 8, the first probing target of _prefetch_all_source. *)
PrefetchAllStart == 100000000

(* None *)
Null == -1

VARIABLES
    init_exc,           \* the exception construction ended with, "none" when it returned
    generator_stop,     \* the build: does a StopIteration raised inside a generator become RuntimeError (PEP 479)
    seq,                \* the sequence / iterable handed to the base source
    src,                \* the source chain below the _CachedDataSource / the engine
    hparams,            \* the hyperparameters as requested
    lazy_strategy, cache_strategy, parallelize_processing, uses_multi_processing,
    warned,             \* a warning was emitted by the policy resolution
    supports_random_access,
    transformed,        \* DataBase._source is wrapped in the outer _TransformedDataSource (line 323)
    cached_source,      \* the _CachedDataSource: cache, max_index, it (iterator), erase_after_access
    dataset_size, processed_cache, reorder_cache, fully_cached,
    submitted,          \* indices the workers have handed to _add_cached_examples
    result,             \* the last operation, its argument and its outcome
    comb                \* a combinator under iteration (Zip, Record, Truncate)

vars == <<init_exc, generator_stop, seq, src, hparams, lazy_strategy, cache_strategy,
          parallelize_processing, uses_multi_processing, warned,
          supports_random_access, transformed, cached_source, dataset_size,
          processed_cache, reorder_cache, fully_cached, submitted, result, comb>>

engine_vars == <<hparams, lazy_strategy, cache_strategy, parallelize_processing,
                 uses_multi_processing, warned, supports_random_access, transformed,
                 dataset_size, processed_cache, reorder_cache, fully_cached, submitted>>

-----------------------------------------------------------------------------
(* Python containers *)

EmptyDict == [k \in {} |-> 0]

DictPut(d, k, v) == [x \in (DOMAIN d) \cup {k} |-> IF x = k THEN v ELSE d[x]]

DictDel(d, k) == [x \in (DOMAIN d) \ {k} |-> d[x]]

ListLen(l) == Cardinality(DOMAIN l)

ListAppend(l, v) == DictPut(l, ListLen(l), v)

Min(a, b) == IF a < b THEN a ELSE b

(* The sequences a user can hand to a source: k-th element k, so that      *)
(* every position is told apart.                                           *)
UserSequences == {[k \in 1..n |-> k] : n \in 0..MaxLen}

(* The processing routine a subclass supplies: any function that is not    *)
(* the identity and not idempotent.                                        *)
Process(raw_example) == raw_example + 100

-----------------------------------------------------------------------------
(* Data sources.  A source chain is a record                               *)
(*   seq            the underlying sequence / iterable,                    *)
(*   random_access  SequenceDataSource (TRUE) or IterDataSource (FALSE),   *)
(*   max_size       the _TruncatedDataSource bound, Null when not wrapped, *)
(*   processed      wrapped in the inner _TransformedDataSource.           *)
(* An iterator over it is the record [pos, dead]: the number of elements   *)
(* pulled, and whether the generator of _TruncatedDataSource has finished. *)

NewIter == [pos |-> 0, dead |-> FALSE]

Ok(v) == [exc |-> "none", val |-> v]

Raise(e) == [exc |-> e, val |-> 0]

(* SequenceDataSource.__getitem__ / DataSource.__getitem__ *)
BaseGetItem(s, index) ==
    IF ~s.random_access THEN Raise("TypeError")
    ELSE IF index < Len(s.seq) THEN Ok(s.seq[index + 1])
    ELSE Raise("IndexError")

(* SequenceDataSource.__len__ / DataSource.__len__ *)
BaseLen(s) ==
    IF s.random_access THEN Ok(Len(s.seq)) ELSE Raise("TypeError")

(* _TruncatedDataSource.__getitem__ *)
TruncatedGetItem(s, item) ==
    IF s.max_size = Null THEN BaseGetItem(s, item)
    ELSE IF item >= s.max_size THEN Raise("IndexError")
    ELSE BaseGetItem(s, item)

(* _TruncatedDataSource.__len__ *)
TruncatedLen(s) ==
    IF s.max_size = Null THEN BaseLen(s)
    ELSE IF BaseLen(s).exc = "TypeError" THEN Ok(s.max_size)
    ELSE Ok(Min(BaseLen(s).val, s.max_size))

(* next() on iter(_TruncatedDataSource): the generator of lines 156-161,   *)
(* or the plain iterator of the base source when there is no truncation.   *)
(* next(iterator) raising StopIteration inside the generator ends it       *)
(* silently on an old build and turns into RuntimeError on a PEP 479 one.  *)
TruncatedNext(s, it, genstop) ==
    IF s.max_size = Null
    THEN IF it.pos < Len(s.seq)
         THEN [exc |-> "none", val |-> s.seq[it.pos + 1], it |-> [it EXCEPT !.pos = @ + 1]]
         ELSE [exc |-> "StopIteration", val |-> 0, it |-> it]
    ELSE IF it.dead
         THEN [exc |-> "StopIteration", val |-> 0, it |-> it]
    ELSE IF it.pos < s.max_size
         THEN IF it.pos < Len(s.seq)
              THEN [exc |-> "none", val |-> s.seq[it.pos + 1], it |-> [it EXCEPT !.pos = @ + 1]]
              ELSE [exc |-> IF genstop THEN "RuntimeError" ELSE "StopIteration",
                    val |-> 0, it |-> [it EXCEPT !.dead = TRUE]]
    ELSE [exc |-> "StopIteration", val |-> 0, it |-> [it EXCEPT !.dead = TRUE]]

(* _TransformedDataSource.__getitem__ (inner wrapper, line 300) *)
ChainGetItem(s, item) ==
    LET r == TruncatedGetItem(s, item)
    IN  IF s.processed /\ r.exc = "none" THEN Ok(Process(r.val)) ELSE r

(* _TransformedDataSource.__len__ *)
ChainLen(s) == TruncatedLen(s)

(* _TransformedDataSource.__iter__: map(process, iter(source)) *)
ChainNext(s, it, genstop) ==
    LET r == TruncatedNext(s, it, genstop)
    IN  IF s.processed /\ r.exc = "none" THEN [r EXCEPT !.val = Process(@)] ELSE r

-----------------------------------------------------------------------------
(* _CachedDataSource *)

(* _CachedDataSource.__init__ *)
NewCachedSource(erase_after_access) ==
    [cache |-> EmptyDict, max_index |-> -1, it |-> NewIter,
     erase_after_access |-> erase_after_access]

(* Faulty variant: never erases the entry that was read. *)
CachedGetItemNeverErases(cs, index) ==
    IF index \notin DOMAIN cs.cache
    THEN [exc |-> IF cs.erase_after_access THEN "KeyError" ELSE "IndexError",
          val |-> 0, cs |-> cs]
    ELSE [exc |-> "none", val |-> cs.cache[index], cs |-> cs]

(* Faulty variant: erases the entry whatever the mode of the buffer. *)
CachedGetItemAlwaysErase(cs, index) ==
    IF index \notin DOMAIN cs.cache
    THEN [exc |-> IF cs.erase_after_access THEN "KeyError" ELSE "IndexError",
          val |-> 0, cs |-> cs]
    ELSE [exc |-> "none", val |-> cs.cache[index],
          cs |-> [cs EXCEPT !.cache = DictDel(@, index)]]

(* _CachedDataSource.__getitem__: the result and the source afterwards *)
CachedGetItem(cs, index) ==
    IF index \notin DOMAIN cs.cache
    THEN [exc |-> IF cs.erase_after_access THEN "KeyError" ELSE "IndexError",
          val |-> 0, cs |-> cs]
    ELSE [exc |-> "none", val |-> cs.cache[index],
          cs |-> IF cs.erase_after_access
                 THEN [cs EXCEPT !.cache = DictDel(@, index)]
                 ELSE cs]

(* Faulty variant: rewinds max_index when the source is exhausted. *)
RECURSIVE CachedPrefetchRewinds(_, _, _, _)
CachedPrefetchRewinds(s, cs, index, genstop) ==
    IF cs.max_index < index
    THEN LET n == ChainNext(s, cs.it, genstop)
         IN  IF n.exc # "none"
             THEN [exc |-> n.exc, cs |-> [cs EXCEPT !.it = n.it, !.max_index = -1]]
             ELSE CachedPrefetchRewinds(s,
                      [cs EXCEPT !.it = n.it,
                                 !.max_index = @ + 1,
                                 !.cache = IF cs.erase_after_access
                                           THEN DictPut(@, cs.max_index + 1, n.val)
                                           ELSE ListAppend(@, n.val)],
                      index, genstop)
    ELSE [exc |-> "none", cs |-> cs]

(* Faulty variant: the loop test is max_index <= index. *)
RECURSIVE CachedPrefetchInclusive(_, _, _, _)
CachedPrefetchInclusive(s, cs, index, genstop) ==
    IF cs.max_index <= index
    THEN LET n == ChainNext(s, cs.it, genstop)
         IN  IF n.exc # "none"
             THEN [exc |-> n.exc, cs |-> [cs EXCEPT !.it = n.it]]
             ELSE IF cs.max_index + 1 > index
             THEN [exc |-> "none",
                   cs |-> [cs EXCEPT !.it = n.it,
                                     !.max_index = @ + 1,
                                     !.cache = IF cs.erase_after_access
                                               THEN DictPut(@, cs.max_index + 1, n.val)
                                               ELSE ListAppend(@, n.val)]]
             ELSE CachedPrefetchInclusive(s,
                      [cs EXCEPT !.it = n.it,
                                 !.max_index = @ + 1,
                                 !.cache = IF cs.erase_after_access
                                           THEN DictPut(@, cs.max_index + 1, n.val)
                                           ELSE ListAppend(@, n.val)],
                      index, genstop)
    ELSE [exc |-> "none", cs |-> cs]

(* _CachedDataSource.prefetch *)
RECURSIVE CachedPrefetch(_, _, _, _)
CachedPrefetch(s, cs, index, genstop) ==
    IF cs.max_index < index
    THEN LET n == ChainNext(s, cs.it, genstop)
         IN  IF n.exc # "none"
             THEN [exc |-> n.exc, cs |-> [cs EXCEPT !.it = n.it]]
             ELSE CachedPrefetch(s,
                      [cs EXCEPT !.it = n.it,
                                 !.max_index = @ + 1,
                                 !.cache = IF cs.erase_after_access
                                           THEN DictPut(@, cs.max_index + 1, n.val)
                                           ELSE ListAppend(@, n.val)],
                      index, genstop)
    ELSE [exc |-> "none", cs |-> cs]

(* Faulty variant: rewinds whatever the mode of the buffer. *)
CachedResetAlways(cs) ==
    [cs EXCEPT !.it = NewIter, !.max_index = -1]

(* Faulty variant: rewinds max_index and keeps the iterator where it is. *)
CachedResetKeepsIterator(cs) ==
    IF cs.erase_after_access
    THEN [cs EXCEPT !.max_index = -1]
    ELSE cs

(* _CachedDataSource.reset *)
CachedReset(cs) ==
    IF cs.erase_after_access
    THEN [cs EXCEPT !.it = NewIter, !.max_index = -1]
    ELSE cs

-----------------------------------------------------------------------------
(* DataBase.__init__ *)

LazyStrategies == {"none", "process", "all"}

CacheStrategies == {"none", "loaded", "processed"}

(* Faulty variant: the process / none combination is left as it is. *)
ResolveCacheStrategyKeepsNone(lazy, cache) ==
    IF lazy = "none" THEN "processed" ELSE cache

(* lines 265-281: the cache strategy after the check of the two strategies *)
ResolveCacheStrategy(lazy, cache) ==
    IF lazy = "none" THEN "processed"
    ELSE IF lazy = "process" /\ cache = "none" THEN "loaded"
    ELSE cache

(* lines 265-281: warnings.warn is called *)
ResolveWarns(lazy, cache) ==
    \/ lazy = "none" /\ cache # "processed"
    \/ lazy = "process" /\ cache = "none"

(* lines 297-300: processing is combined with loading below the cache *)
WrapsInner(par, lazy, cache) ==
    ~par /\ lazy = "all" /\ cache # "loaded"

(* lines 321-323: processing is combined with loading above the cache *)
WrapsOuter(par, cache) ==
    ~par /\ cache = "loaded"

(* Faulty variant: the check tries len(self._source) only. *)
ProbeLenOnly(s, lazy) ==
    IF lazy = "none" THEN "skipped"
    ELSE ChainLen(s).exc

(* lines 305-308: len(self._source) and self._source[0]; "skipped" when    *)
(* the lazy strategy is none.                                              *)
Probe(s, lazy) ==
    IF lazy = "none" THEN "skipped"
    ELSE IF ChainLen(s).exc # "none" THEN ChainLen(s).exc
    ELSE ChainGetItem(s, 0).exc

(* lines 326-342 and the properties of lines 729-764 *)
ShouldReturnProcessedExamplesFlag(lazy, cache, par) ==
    lazy # "none" /\ cache = "processed" /\ par

ShouldCallPrefetchSourceFlag(lazy, cache) ==
    lazy = "all" /\ cache = "none"

ShouldCallPrefetchProcessed(lazy, cache, par) ==
    ~par /\ lazy = "process" /\ cache = "processed"

(* Faulty variant: the raw entries are deleted whatever the settings. *)
ShouldDeleteSourceInAddCacheAlways(sra, par, multi, lazy, cache) ==
    ~sra

ShouldDeleteSourceInAddCache(sra, par, multi, lazy, cache) ==
    ~sra /\ par /\ multi /\ lazy = "process" /\ cache = "processed"

(* lines 347-348: [self._process(raw_example) for raw_example in source] *)
RECURSIVE EagerProcessAll(_, _, _, _)
EagerProcessAll(s, it, acc, genstop) ==
    LET n == ChainNext(s, it, genstop)
    IN  IF n.exc = "StopIteration" THEN [exc |-> "none", list |-> acc]
        ELSE IF n.exc # "none" THEN [exc |-> n.exc, list |-> acc]
        ELSE EagerProcessAll(s, n.it, ListAppend(acc, Process(n.val)), genstop)

(* DataBase._prefetch_all_source, lines 551-553: the doubling loop entered *)
(* after the prefetch `r` to max_index has returned.                       *)
RECURSIVE PrefetchAllLoop(_, _, _, _)
PrefetchAllLoop(s, r, max_index, genstop) ==
    IF r.exc = "none"
    THEN PrefetchAllLoop(s, CachedPrefetch(s, r.cs, max_index * 2, genstop),
                         max_index * 2, genstop)
    ELSE r

(* DataBase._prefetch_all_source, lines 554-556: `r` is how the prefetches *)
(* ended; StopIteration is caught and fixes the dataset size.              *)
PrefetchAllEnd(r, size) ==
    IF r.exc = "StopIteration"
    THEN [exc |-> "none", cs |-> r.cs, dataset_size |-> r.cs.max_index + 1,
          val |-> r.cs.max_index + 1]
    ELSE [exc |-> r.exc, cs |-> r.cs, dataset_size |-> size, val |-> Null]

(* DataBase._prefetch_all_source: the cached source afterwards, the        *)
(* exception that escapes, the dataset size set and returned.              *)
PrefetchAllSource(s, cs, size, genstop) ==
    PrefetchAllEnd(
        PrefetchAllLoop(s, CachedPrefetch(s, cs, PrefetchAllStart, genstop),
                        PrefetchAllStart, genstop),
        size)

(* DataBase.__init__, lines 261-342: the object before the eager loading   *)
(* and processing; `probe` is the outcome of the random access check.      *)
Constructed(h, cache, s, probe) ==
    [exc |-> IF probe \in {"skipped", "none", "TypeError"} THEN "none" ELSE probe,
     lazy_strategy |-> h.lazy_strategy,
     cache_strategy |-> cache,
     warned |-> ResolveWarns(h.lazy_strategy, h.cache_strategy),
     src |-> s,
     supports_random_access |-> (probe # "TypeError"),
     transformed |-> WrapsOuter(h.parallelize_processing, cache),
     cached_source |-> NewCachedSource(IF probe # "TypeError" THEN FALSE
                                       ELSE cache # "loaded"),
     dataset_size |-> IF probe \in {"none", "IndexError"} THEN ChainLen(s).val
                      ELSE Null,
     processed_cache |-> EmptyDict,
     fully_cached |-> FALSE]

(* lines 345-350: eager loading and processing; `eager` is the outcome of  *)
(* the list comprehension.                                                 *)
ConstructEager(c, eager) ==
    IF eager.exc # "none" THEN [c EXCEPT !.exc = eager.exc]
    ELSE [c EXCEPT !.processed_cache = eager.list,
                   !.dataset_size = ListLen(eager.list),
                   !.fully_cached = TRUE]

(* lines 352-356: eager loading; `all` is the outcome of                   *)
(* _prefetch_all_source.                                                   *)
ConstructLoaded(c, all) ==
    [c EXCEPT !.exc = all.exc, !.cached_source = all.cs,
              !.dataset_size = all.dataset_size]

(* lines 344-361 *)
ConstructLoad(c, genstop) ==
    IF c.exc # "none" THEN c
    ELSE IF c.lazy_strategy = "none"
    THEN ConstructEager(c, EagerProcessAll(c.src, NewIter, EmptyDict, genstop))
    ELSE IF c.lazy_strategy = "process" /\ ~c.supports_random_access
    THEN ConstructLoaded(c, PrefetchAllSource(c.src, c.cached_source, Null, genstop))
    ELSE c

(* lines 288-316: the source chain and the random access check *)
ConstructProbe(h, cache, s, genstop) ==
    ConstructLoad(Constructed(h, cache, s, Probe(s, h.lazy_strategy)), genstop)

(* lines 265-300: the strategies and the wrapping below the cache *)
ConstructResolved(h, cache, sq, ra, genstop) ==
    ConstructProbe(h, cache,
        [seq |-> sq, random_access |-> ra, max_size |-> h.max_dataset_size,
         processed |-> WrapsInner(h.parallelize_processing, h.lazy_strategy, cache)],
        genstop)

(* DataBase.__init__: the object construction leaves, or the exception *)
Construct(h, sq, ra, genstop) ==
    ConstructResolved(h, ResolveCacheStrategy(h.lazy_strategy, h.cache_strategy),
                      sq, ra, genstop)

-----------------------------------------------------------------------------
(* The result of the last call: the operation, its index argument, the     *)
(* exception that escaped ("none" when it returned) and the value returned.*)
(* For __getitem__, `again` tells that the call before was a successful    *)
(* __getitem__ of the same index, which returned `before`.                 *)

Res(op, index, exc, val) ==
    [op |-> op, index |-> index, exc |-> exc, val |-> val,
     again |-> FALSE, before |-> 0, process_calls |-> 0]

NoResult == Res("init", Null, "none", Null)

NoComb == [kind |-> "none"]

NoHparams == [lazy_strategy |-> "all", cache_strategy |-> "none",
              parallelize_processing |-> TRUE, num_parallel_calls |-> 1,
              max_dataset_size |-> Null]

(* The hyperparameters construction is tried with.  num_parallel_calls is  *)
(* read only by the flag of lines 337-342, so more than one worker is      *)
(* tried where that flag can depend on it.                                 *)
Hparams ==
    {h \in [lazy_strategy : LazyStrategies, cache_strategy : CacheStrategies,
            parallelize_processing : BOOLEAN, num_parallel_calls : {1, 2},
            max_dataset_size : {Null, MaxLen - 1}] :
        h.num_parallel_calls > 1
            => /\ h.parallelize_processing
               /\ h.lazy_strategy = "process"
               /\ h.cache_strategy = "processed"}

(* The builds: the two differ only where the generator of                  *)
(* _TruncatedDataSource runs past the end of its source.                   *)
Builds(sq, max_size) ==
    IF max_size # Null /\ max_size > Len(sq) THEN BOOLEAN ELSE {TRUE}

Init ==
    \E h \in Hparams, sq \in UserSequences, ra \in BOOLEAN :
      \E gs \in Builds(sq, h.max_dataset_size) :
        LET c == Construct(h, sq, ra, gs)
        IN  /\ init_exc = c.exc
            /\ generator_stop = gs
            /\ seq = sq
            /\ src = c.src
            /\ hparams = h
            /\ lazy_strategy = c.lazy_strategy
            /\ cache_strategy = c.cache_strategy
            /\ parallelize_processing = h.parallelize_processing
            /\ uses_multi_processing = (h.num_parallel_calls > 1)
            /\ warned = c.warned
            /\ supports_random_access = c.supports_random_access
            /\ transformed = c.transformed
            /\ cached_source = c.cached_source
            /\ dataset_size = c.dataset_size
            /\ processed_cache = c.processed_cache
            /\ reorder_cache = EmptyDict
            /\ fully_cached = c.fully_cached
            /\ submitted = {}
            /\ result = NoResult
            /\ comb = NoComb

-----------------------------------------------------------------------------
(* DataBase: the operations after construction *)

(* self._source[index] on the chain DataBase.__init__ has built *)
SourceGetItem(s, cs, sra, outer, index) ==
    LET r == IF sra
             THEN [exc |-> ChainGetItem(s, index).exc,
                   val |-> ChainGetItem(s, index).val, cs |-> cs]
             ELSE CachedGetItem(cs, index)
    IN  IF outer /\ r.exc = "none" THEN [r EXCEPT !.val = Process(@)] ELSE r

(* Faulty variant: reads the source also when the engine is fully cached. *)
DataBaseGetItemIgnoresCache(s, cs, sra, outer, cached, cache, par, index) ==
    LET r == SourceGetItem(s, cs, sra, outer, index)
    IN  IF ~par THEN r
        ELSE IF r.exc = "none" THEN [r EXCEPT !.val = Process(@)]
        ELSE r

(* DataBase.__getitem__ with a plain index *)
DataBaseGetItem(s, cs, sra, outer, cached, cache, par, index) ==
    LET r == SourceGetItem(s, cs, sra, outer, index)
    IN  IF cached
        THEN IF index \in DOMAIN cache
             THEN [exc |-> "none", val |-> cache[index], cs |-> cs]
             ELSE [exc |-> "IndexError", val |-> 0, cs |-> cs]
        ELSE IF ~par THEN r
        ELSE IF r.exc = "none" THEN [r EXCEPT !.val = Process(@)]
        ELSE r

(* The calls of self._process made by __getitem__ itself with a plain     *)
(* index (line 619), given how the read of the source ended.              *)
GetItemProcessCalls(cached, par, exc) ==
    IF cached THEN 0
    ELSE IF ~par THEN 0
    ELSE IF exc = "none" THEN 1 ELSE 0

GetItem(index) ==
    LET r == DataBaseGetItem(src, cached_source, supports_random_access, transformed,
                             fully_cached, processed_cache, parallelize_processing, index)
    IN  /\ init_exc = "none"
        /\ cached_source' = r.cs
        /\ result' = [Res("getitem", index, r.exc, r.val) EXCEPT
                         !.again = result.op = "getitem" /\ result.index = index
                                   /\ result.exc = "none",
                         !.before = IF result.op = "getitem" /\ result.index = index
                                       /\ result.exc = "none"
                                    THEN result.val ELSE 0,
                         !.process_calls =
                             GetItemProcessCalls(fully_cached, parallelize_processing,
                                                 r.exc)]
        /\ UNCHANGED <<init_exc, generator_stop, seq, src, engine_vars, comb>>

(* The number of elements an iteration over the source chain yields *)
TrueSize ==
    IF src.max_size = Null THEN Len(src.seq) ELSE Min(Len(src.seq), src.max_size)

(* The example the sampler reads from self._source for an index and hands *)
(* to __getitem__ in a pair: processed already when processing is         *)
(* combined with loading.                                                  *)
SamplerExample(index) ==
    IF src.processed \/ transformed
    THEN Process(src.seq[index + 1])
    ELSE src.seq[index + 1]

(* DataBase.__getitem__ with a pair (index, example), lines 621-626.  The *)
(* sampler makes pairs only under the lazy strategy all (line 740); the   *)
(* pair may reach __getitem__ after the engine has become fully cached.   *)
DataBaseGetItemPair(par, index, example) ==
    IF ~par THEN [exc |-> "none", val |-> example, process_calls |-> 0]
    ELSE [exc |-> "none", val |-> Process(example), process_calls |-> 1]

GetItemPair(index) ==
    LET r == DataBaseGetItemPair(parallelize_processing, index, SamplerExample(index))
    IN  /\ init_exc = "none"
        /\ lazy_strategy = "all"
        /\ index < TrueSize
        /\ result' = [Res("getitem_pair", index, r.exc, r.val) EXCEPT
                         !.process_calls = r.process_calls]
        /\ UNCHANGED <<init_exc, generator_stop, seq, src, engine_vars,
                       cached_source, comb>>

(* DataBase._prefetch_processed: the extend of lines 533-535 stops at the  *)
(* first exception and keeps what it has appended.                         *)
RECURSIVE PrefetchProcessedLoop(_, _, _, _, _, _, _)
PrefetchProcessedLoop(s, cs, sra, outer, cache, x, index) ==
    IF x > index THEN [exc |-> "none", cs |-> cs, cache |-> cache]
    ELSE LET r == SourceGetItem(s, cs, sra, outer, x)
         IN  IF r.exc # "none" THEN [exc |-> r.exc, cs |-> cs, cache |-> cache]
             ELSE PrefetchProcessedLoop(s, r.cs, sra, outer,
                                        ListAppend(cache, Process(r.val)), x + 1, index)

(* DataBase._prefetch_processed, lines 536-537: `r` is how the extend ended *)
PrefetchProcessedEnd(r, cached, size) ==
    [exc |-> r.exc, cs |-> r.cs, cache |-> r.cache,
     fully_cached |-> IF r.exc = "none" /\ ListLen(r.cache) = size
                      THEN TRUE ELSE cached]

(* DataBase._prefetch_processed *)
PrefetchProcessed(s, cs, sra, outer, cache, cached, size, index) ==
    IF ListLen(cache) <= index
    THEN PrefetchProcessedEnd(
             PrefetchProcessedLoop(s, cs, sra, outer, cache, ListLen(cache), index),
             cached, size)
    ELSE [exc |-> "none", cs |-> cs, cache |-> cache, fully_cached |-> cached]

(* DataBase._prefetch_source, lines 576-580: `q` is the outcome of         *)
(* _prefetch_processed, `val` the value to return after it.                *)
PrefetchSourceProcessed(q, size, val) ==
    [exc |-> q.exc, val |-> IF q.exc = "none" THEN val ELSE Null, cs |-> q.cs,
     cache |-> q.cache, fully_cached |-> q.fully_cached, dataset_size |-> size]

(* Faulty variant: at the end of the source the dataset size is taken from *)
(* the number of buffered entries.                                         *)
PrefetchSourceCachedCountsBuffer(p, s, sra, outer, cache, cached, size, flag, index) ==
    IF p.exc = "StopIteration"
    THEN [exc |-> "none", val |-> ListLen(p.cs.cache), cs |-> p.cs, cache |-> cache,
          fully_cached |-> cached, dataset_size |-> ListLen(p.cs.cache)]
    ELSE IF p.exc # "none"
    THEN [exc |-> p.exc, val |-> Null, cs |-> p.cs, cache |-> cache,
          fully_cached |-> cached, dataset_size |-> size]
    ELSE IF flag
    THEN PrefetchSourceProcessed(
             PrefetchProcessed(s, p.cs, sra, outer, cache, cached, size, index),
             size, Null)
    ELSE [exc |-> "none", val |-> Null, cs |-> p.cs, cache |-> cache,
          fully_cached |-> cached, dataset_size |-> size]

(* DataBase._prefetch_source, lines 571-580: `p` is the outcome of         *)
(* self._cached_source.prefetch(index).                                    *)
PrefetchSourceCached(p, s, sra, outer, cache, cached, size, flag, index) ==
    IF p.exc = "StopIteration"
    THEN IF flag
         THEN PrefetchSourceProcessed(
                  PrefetchProcessed(s, p.cs, sra, outer, cache, cached,
                                    p.cs.max_index + 1, p.cs.max_index),
                  p.cs.max_index + 1, p.cs.max_index + 1)
         ELSE [exc |-> "none", val |-> p.cs.max_index + 1, cs |-> p.cs, cache |-> cache,
               fully_cached |-> cached, dataset_size |-> p.cs.max_index + 1]
    ELSE IF p.exc # "none"
    THEN [exc |-> p.exc, val |-> Null, cs |-> p.cs, cache |-> cache,
          fully_cached |-> cached, dataset_size |-> size]
    ELSE IF flag
    THEN PrefetchSourceProcessed(
             PrefetchProcessed(s, p.cs, sra, outer, cache, cached, size, index),
             size, Null)
    ELSE [exc |-> "none", val |-> Null, cs |-> p.cs, cache |-> cache,
          fully_cached |-> cached, dataset_size |-> size]

(* Faulty variant: the comparison of line 582 is index > dataset_size. *)
DataBasePrefetchSourceStrict(s, cs, sra, outer, cache, cached, size, flag, index, genstop) ==
    IF sra
    THEN [exc |-> "none", val |-> IF index > size THEN size ELSE Null, cs |-> cs,
          cache |-> cache, fully_cached |-> cached, dataset_size |-> size]
    ELSE PrefetchSourceCached(CachedPrefetch(s, cs, index, genstop),
                              s, sra, outer, cache, cached, size, flag, index)

(* DataBase._prefetch_source *)
DataBasePrefetchSource(s, cs, sra, outer, cache, cached, size, flag, index, genstop) ==
    IF sra
    THEN [exc |-> "none", val |-> IF index >= size THEN size ELSE Null, cs |-> cs,
          cache |-> cache, fully_cached |-> cached, dataset_size |-> size]
    ELSE PrefetchSourceCached(CachedPrefetch(s, cs, index, genstop),
                              s, sra, outer, cache, cached, size, flag, index)

PrefetchSource(index) ==
    LET r == DataBasePrefetchSource(src, cached_source, supports_random_access,
                 transformed, processed_cache, fully_cached, dataset_size,
                 ShouldCallPrefetchProcessed(lazy_strategy, cache_strategy,
                                             parallelize_processing),
                 index, generator_stop)
    IN  /\ init_exc = "none"
        /\ cached_source' = r.cs
        /\ processed_cache' = r.cache
        /\ fully_cached' = r.fully_cached
        /\ dataset_size' = r.dataset_size
        /\ result' = Res("prefetch_source", index, r.exc, r.val)
        /\ UNCHANGED <<init_exc, generator_stop, seq, src, hparams, lazy_strategy,
                       cache_strategy, parallelize_processing, uses_multi_processing,
                       warned, supports_random_access, transformed, reorder_cache,
                       submitted, comb>>

(* DataBase.__len__ *)
DataBaseLen(s, cs, size, genstop) ==
    IF size = Null
    THEN PrefetchAllSource(s, cs, size, genstop)
    ELSE [exc |-> "none", cs |-> cs, dataset_size |-> size, val |-> size]

LenCall ==
    LET r == DataBaseLen(src, cached_source, dataset_size, generator_stop)
    IN  /\ init_exc = "none"
        /\ cached_source' = r.cs
        /\ dataset_size' = r.dataset_size
        /\ result' = Res("len", Null, r.exc, r.val)
        /\ UNCHANGED <<init_exc, generator_stop, seq, src, hparams, lazy_strategy,
                       cache_strategy, parallelize_processing, uses_multi_processing,
                       warned, supports_random_access, transformed, processed_cache,
                       reorder_cache, fully_cached, submitted, comb>>

(* DataBase._start_iteration *)
DataBaseStartIteration(cs, sra) ==
    IF ~sra THEN CachedReset(cs) ELSE cs

StartIteration ==
    /\ init_exc = "none"
    /\ cached_source' = DataBaseStartIteration(cached_source, supports_random_access)
    /\ result' = Res("start_iteration", Null, "none", Null)
    /\ UNCHANGED <<init_exc, generator_stop, seq, src, engine_vars, comb>>

(* DataBase._add_cached_examples, lines 641-642: del of the raw entries;   *)
(* the first missing one raises KeyError.                                  *)
RECURSIVE DeleteSourceLoop(_, _, _)
DeleteSourceLoop(cs, indices, i) ==
    IF i > Len(indices) THEN [exc |-> "none", cs |-> cs]
    ELSE IF indices[i] \notin DOMAIN cs.cache THEN [exc |-> "KeyError", cs |-> cs]
    ELSE DeleteSourceLoop([cs EXCEPT !.cache = DictDel(@, indices[i])], indices, i + 1)

(* Faulty variant: appends every example, whatever its index. *)
RECURSIVE AddLoopAppendsAll(_, _, _, _, _)
AddLoopAppendsAll(cache, reorder, indices, examples, i) ==
    IF i > Min(Len(indices), Len(examples)) THEN [cache |-> cache, reorder |-> reorder]
    ELSE AddLoopAppendsAll(ListAppend(cache, examples[i]), reorder, indices, examples, i + 1)

(* lines 643-647: append the next example, stash any other *)
RECURSIVE AddLoop(_, _, _, _, _)
AddLoop(cache, reorder, indices, examples, i) ==
    IF i > Min(Len(indices), Len(examples)) THEN [cache |-> cache, reorder |-> reorder]
    ELSE IF indices[i] = ListLen(cache)
    THEN AddLoop(ListAppend(cache, examples[i]), reorder, indices, examples, i + 1)
    ELSE AddLoop(cache, DictPut(reorder, indices[i], examples[i]), indices, examples, i + 1)

(* Faulty variant: the drain appends the stashed examples and empties the *)
(* whole buffer.                                                           *)
RECURSIVE DrainLoopClears(_, _)
DrainLoopClears(cache, reorder) ==
    IF ListLen(cache) \in DOMAIN reorder
    THEN DrainLoopClears(ListAppend(cache, reorder[ListLen(cache)]),
                         DictDel(reorder, ListLen(cache)))
    ELSE [cache |-> cache, reorder |-> EmptyDict]

(* Faulty variant: moves at most one stashed example. *)
DrainLoopOnce(cache, reorder) ==
    IF ListLen(cache) \in DOMAIN reorder
    THEN [cache |-> ListAppend(cache, reorder[ListLen(cache)]),
          reorder |-> DictDel(reorder, ListLen(cache))]
    ELSE [cache |-> cache, reorder |-> reorder]

(* lines 649-652: move the stashed examples that have become contiguous *)
RECURSIVE DrainLoop(_, _)
DrainLoop(cache, reorder) ==
    IF ListLen(cache) \in DOMAIN reorder
    THEN DrainLoop(ListAppend(cache, reorder[ListLen(cache)]),
                   DictDel(reorder, ListLen(cache)))
    ELSE [cache |-> cache, reorder |-> reorder]

(* DataBase._add_cached_examples *)
DataBaseAddCachedExamples(cs, cache, reorder, cached, size, delete, indices, examples) ==
    LET d == IF delete THEN DeleteSourceLoop(cs, indices, 1)
             ELSE [exc |-> "none", cs |-> cs]
        a == AddLoop(cache, reorder, indices, examples, 1)
        r == DrainLoop(a.cache, a.reorder)
    IN  IF d.exc # "none"
        THEN [exc |-> d.exc, cs |-> d.cs, cache |-> cache, reorder |-> reorder,
              fully_cached |-> cached]
        ELSE [exc |-> "none", cs |-> d.cs, cache |-> r.cache, reorder |-> r.reorder,
              fully_cached |-> IF ListLen(r.cache) = size THEN TRUE ELSE cached]

(* DataBase._should_return_processed_examples *)
ShouldReturnProcessedExamples ==
    /\ ~fully_cached
    /\ ShouldReturnProcessedExamplesFlag(lazy_strategy, cache_strategy,
                                         parallelize_processing)

(* The indices whose raw examples have been loaded, and the batches of    *)
(* them the workers can hand back: each index once, in any order.         *)
Loaded ==
    IF supports_random_access THEN 0..(dataset_size - 1)
    ELSE 0..cached_source.max_index

Batches(S) ==
    {b \in UNION {[1..n -> S] : n \in 1..MaxBatch} :
        \A i, j \in DOMAIN b : i # j => b[i] # b[j]}

(* The example a worker returns for an index *)
WorkerExample(index) == Process(src.seq[index + 1])

AddCachedExamples(indices) ==
    LET r == DataBaseAddCachedExamples(cached_source, processed_cache, reorder_cache,
                 fully_cached, dataset_size,
                 ShouldDeleteSourceInAddCache(supports_random_access,
                     parallelize_processing, uses_multi_processing,
                     lazy_strategy, cache_strategy),
                 indices, [i \in DOMAIN indices |-> WorkerExample(indices[i])])
    IN  /\ init_exc = "none"
        /\ ShouldReturnProcessedExamples
        /\ cached_source' = r.cs
        /\ processed_cache' = r.cache
        /\ reorder_cache' = r.reorder
        /\ fully_cached' = r.fully_cached
        /\ submitted' = IF r.exc = "none"
                        THEN submitted \cup {indices[i] : i \in DOMAIN indices}
                        ELSE submitted
        /\ result' = Res("add_cached_examples", Null, r.exc, Null)
        /\ UNCHANGED <<init_exc, generator_stop, seq, src, hparams, lazy_strategy,
                       cache_strategy, parallelize_processing, uses_multi_processing,
                       warned, supports_random_access, transformed, dataset_size, comb>>

Indices == 0..MaxLen

Next ==
    \/ \E index \in Indices : GetItem(index)
    \/ \E index \in Indices : GetItemPair(index)
    \/ \E index \in Indices : PrefetchSource(index)
    \/ LenCall
    \/ StartIteration
    \/ \E indices \in Batches(Loaded \ submitted) : AddCachedExamples(indices)

Spec == Init /\ [][Next]_vars

-----------------------------------------------------------------------------
(* A _CachedDataSource on its own, over an iterable that may be truncated: *)
(* prefetch, __getitem__ and reset in any order.                           *)

EngineIdle ==
    /\ hparams = NoHparams
    /\ lazy_strategy = "all"
    /\ cache_strategy = "none"
    /\ parallelize_processing = TRUE
    /\ uses_multi_processing = FALSE
    /\ warned = FALSE
    /\ supports_random_access = FALSE
    /\ transformed = FALSE
    /\ dataset_size = Null
    /\ processed_cache = EmptyDict
    /\ reorder_cache = EmptyDict
    /\ fully_cached = FALSE
    /\ submitted = {}

InitCached ==
    \E sq \in UserSequences, n \in {Null, MaxLen - 1}, erase \in BOOLEAN :
      \E gs \in Builds(sq, n) :
        /\ init_exc = "none"
        /\ generator_stop = gs
        /\ seq = sq
        /\ src = [seq |-> sq, random_access |-> FALSE, max_size |-> n, processed |-> FALSE]
        /\ cached_source = NewCachedSource(erase)
        /\ EngineIdle
        /\ result = NoResult
        /\ comb = NoComb

CachedSourcePrefetch(index) ==
    LET r == CachedPrefetch(src, cached_source, index, generator_stop)
    IN  /\ cached_source' = r.cs
        /\ result' = Res("prefetch", index, r.exc, Null)
        /\ UNCHANGED <<init_exc, generator_stop, seq, src, engine_vars, comb>>

CachedSourceGetItem(index) ==
    LET r == CachedGetItem(cached_source, index)
    IN  /\ cached_source' = r.cs
        /\ result' = [Res("getitem", index, r.exc, r.val) EXCEPT
                         !.again = result.op = "getitem" /\ result.index = index
                                   /\ result.exc = "none",
                         !.before = IF result.op = "getitem" /\ result.index = index
                                       /\ result.exc = "none"
                                    THEN result.val ELSE 0]
        /\ UNCHANGED <<init_exc, generator_stop, seq, src, engine_vars, comb>>

CachedSourceReset ==
    /\ cached_source' = CachedReset(cached_source)
    /\ result' = Res("reset", Null, "none", Null)
    /\ UNCHANGED <<init_exc, generator_stop, seq, src, engine_vars, comb>>

NextCached ==
    \/ \E index \in Indices : CachedSourcePrefetch(index)
    \/ \E index \in Indices : CachedSourceGetItem(index)
    \/ CachedSourceReset

SpecCached == InitCached /\ [][NextCached]_vars

-----------------------------------------------------------------------------
(* The combinators: ZipDataSource and RecordDataSource over                *)
(* SequenceDataSource members, and _TruncatedDataSource.  `comb` holds the *)
(* combinator and one iteration over it: the iterators of the members, the *)
(* elements yielded so far and how the iteration stands ("running", "done" *)
(* when it ended normally, or the exception that escaped).                 *)

(* The j-th member holds 10 * j + 1, 10 * j + 2, ... *)
MemberSequences(j) == {[k \in 1..n |-> 10 * j + k] : n \in 0..MaxLen}

MemberTuples ==
    UNION {{m \in [1..n -> UNION {MemberSequences(j) : j \in 1..n}] :
               \A j \in 1..n : m[j] \in MemberSequences(j)} : n \in 1..MaxMembers}

(* The names of the members of a RecordDataSource, in insertion order *)
Keys == <<"a", "b", "c", "d">>

(* tuple(...) of line 101 and the dict of lines 133 and 139 *)
Combine(kind, values) ==
    IF kind = "zip" THEN values
    ELSE [key \in {Keys[j] : j \in DOMAIN values} |->
              values[CHOOSE j \in DOMAIN values : Keys[j] = key]]

(* ZipDataSource.__getitem__, RecordDataSource.__getitem__ *)
ZipGetItem(kind, members, index) ==
    IF \E j \in DOMAIN members : index >= Len(members[j])
    THEN Raise("IndexError")
    ELSE Ok(Combine(kind, [j \in DOMAIN members |-> members[j][index + 1]]))

(* Faulty variant: the length of the first member. *)
ZipLenFirst(members) == Len(members[1])

(* ZipDataSource.__len__, RecordDataSource.__len__ *)
ZipLen(members) ==
    CHOOSE n \in {Len(members[j]) : j \in DOMAIN members} :
        \A j \in DOMAIN members : n <= Len(members[j])

(* next() on the zip of the members' iterators: pull from them in order and *)
(* stop at the first one that is exhausted.                                *)
RECURSIVE ZipPull(_, _, _, _)
ZipPull(members, its, j, values) ==
    IF j > Len(members) THEN [exc |-> "none", val |-> values, its |-> its]
    ELSE IF its[j] >= Len(members[j]) THEN [exc |-> "StopIteration", val |-> values, its |-> its]
    ELSE ZipPull(members, [its EXCEPT ![j] = @ + 1], j + 1,
                 Append(values, members[j][its[j] + 1]))

(* ZipDataSource.__iter__, RecordDataSource.__iter__: one next() *)
ZipNext(kind, members, its) ==
    LET r == ZipPull(members, its, 1, <<>>)
    IN  IF r.exc = "none" THEN [r EXCEPT !.val = Combine(kind, @)] ELSE r

InitComb ==
    /\ init_exc = "none"
    /\ generator_stop \in BOOLEAN
    /\ seq = <<>>
    /\ \/ \E kind \in {"zip", "record"}, m \in MemberTuples :
             /\ comb = [kind |-> kind, members |-> m, its |-> [j \in DOMAIN m |-> 0],
                        it |-> NewIter, out |-> <<>>, state |-> "running"]
             /\ src = [seq |-> <<>>, random_access |-> TRUE, max_size |-> Null,
                       processed |-> FALSE]
       \/ \E sq \in UserSequences, ra \in BOOLEAN, n \in 0..(MaxLen + 1) :
             /\ comb = [kind |-> "truncate", members |-> <<sq>>, its |-> <<0>>,
                        it |-> NewIter, out |-> <<>>, state |-> "running"]
             /\ src = [seq |-> sq, random_access |-> ra, max_size |-> n,
                       processed |-> FALSE]
    /\ cached_source = NewCachedSource(FALSE)
    /\ EngineIdle
    /\ result = NoResult

(* next() on the iterator of the combinator *)
CombNext ==
    /\ comb.state = "running"
    /\ IF comb.kind = "truncate"
       THEN LET r == TruncatedNext(src, comb.it, generator_stop)
            IN  comb' = [comb EXCEPT !.it = r.it,
                             !.out = IF r.exc = "none" THEN Append(@, r.val) ELSE @,
                             !.state = IF r.exc = "none" THEN "running"
                                       ELSE IF r.exc = "StopIteration" THEN "done"
                                       ELSE r.exc]
       ELSE LET r == ZipNext(comb.kind, comb.members, comb.its)
            IN  comb' = [comb EXCEPT !.its = r.its,
                             !.out = IF r.exc = "none" THEN Append(@, r.val) ELSE @,
                             !.state = IF r.exc = "none" THEN "running" ELSE "done"]
    /\ result' = Res("next", Null, "none", Null)
    /\ UNCHANGED <<init_exc, generator_stop, seq, src, engine_vars, cached_source>>

CombGetItem(index) ==
    LET r == IF comb.kind = "truncate" THEN TruncatedGetItem(src, index)
             ELSE ZipGetItem(comb.kind, comb.members, index)
    IN  /\ result' = Res("getitem", index, r.exc, r.val)
        /\ UNCHANGED <<init_exc, generator_stop, seq, src, engine_vars, cached_source, comb>>

CombLen ==
    LET r == IF comb.kind = "truncate" THEN TruncatedLen(src)
             ELSE Ok(ZipLen(comb.members))
    IN  /\ result' = Res("len", Null, r.exc, r.val)
        /\ UNCHANGED <<init_exc, generator_stop, seq, src, engine_vars, cached_source, comb>>

NextComb ==
    \/ CombNext
    \/ \E index \in 0..(MaxLen + 1) : CombGetItem(index)
    \/ CombLen

SpecComb == InitComb /\ [][NextComb]_vars

-----------------------------------------------------------------------------
(* Properties *)

(* C1: over a random-access sequence source without truncation, a plain    *)
(* __getitem__(i) of a valid index returns the raw example processed       *)
(* exactly once, for every strategy combination.                           *)
C1_GetProcessedOnce ==
    (/\ result.op = "getitem"
     /\ src.random_access
     /\ src.max_size = Null
     /\ result.index < Len(seq))
    => /\ result.exc = "none"
       /\ result.val = Process(seq[result.index + 1])

(* The engine laziness=none builds from the same source and settings *)
EagerEngine ==
    Construct([hparams EXCEPT !.lazy_strategy = "none"], seq, src.random_access,
              generator_stop)

(* C2: a plain __getitem__(i) of a lazy engine on an index that is at hand *)
(* (random access, or prefetched and not yet erased) returns the i-th      *)
(* entry of the processed cache of the eager engine.                       *)
C2_LazyEqualsEager ==
    [][(/\ result'.op = "getitem"
        /\ lazy_strategy # "none"
        /\ \/ supports_random_access
           \/ result'.index \in DOMAIN cached_source.cache
        /\ EagerEngine.exc = "none"
        /\ result'.index \in DOMAIN EagerEngine.processed_cache)
       => /\ result'.exc = "none"
          /\ result'.val = EagerEngine.processed_cache[result'.index]]_vars

(* C3 as stated: under cache=loaded or cache=processed a second            *)
(* __getitem__ of the same index, right after a successful one, succeeds   *)
(* and returns an equal result.                                            *)
C3_RereadEqual ==
    (/\ result.op = "getitem"
     /\ result.again
     /\ cache_strategy \in {"loaded", "processed"})
    => /\ result.exc = "none"
       /\ result.val = result.before

(* C3 amended: the second read succeeds with an equal result when the      *)
(* cache is loaded, the source has random access or the engine is fully    *)
(* cached; under cache=processed over a sequential-only source that is not *)
(* fully cached the first read erased the entry and the second raises      *)
(* KeyError.                                                               *)
C3_RereadEqualUnlessErased ==
    (/\ result.op = "getitem"
     /\ result.again
     /\ cache_strategy \in {"loaded", "processed"})
    => IF cache_strategy = "loaded" \/ supports_random_access \/ fully_cached
       THEN result.exc = "none" /\ result.val = result.before
       ELSE result.exc = "KeyError"

C3_Witness ==
    /\ result.op = "getitem"
    /\ result.again
    /\ result.exc = "none"
    /\ cache_strategy = "loaded"
    /\ ~supports_random_access
    /\ ~fully_cached

(* C4: with the dataset size known, a call of _add_cached_examples leaves  *)
(* fully_cached true exactly when every index 0..N-1 has been submitted,   *)
(* and then processed_cache holds the examples in index order and the      *)
(* reorder buffer is empty.                                                *)
C4_AddProcessedDrains ==
    (/\ result.op = "add_cached_examples"
     /\ result.exc = "none"
     /\ dataset_size # Null)
    => /\ fully_cached = (submitted = 0..(dataset_size - 1))
       /\ submitted = 0..(dataset_size - 1)
          => /\ processed_cache = [k \in 0..(dataset_size - 1) |-> WorkerExample(k)]
             /\ reorder_cache = EmptyDict

C4_Witness ==
    /\ result.op = "add_cached_examples"
    /\ result.exc = "none"
    /\ dataset_size = MaxLen
    /\ submitted = 0..(dataset_size - 1)
    /\ fully_cached

(* C5: the resolved cache strategy is processed under laziness=none,       *)
(* loaded under laziness=process when none was requested, and the          *)
(* requested one otherwise; the lazy strategy is the requested one; a      *)
(* warning is emitted exactly when the cache strategy was changed.         *)
C5_PolicyResolution ==
    /\ lazy_strategy = hparams.lazy_strategy
    /\ cache_strategy =
          CASE hparams.lazy_strategy = "none" -> "processed"
            [] hparams.lazy_strategy = "process" ->
                 IF hparams.cache_strategy = "none" THEN "loaded"
                 ELSE hparams.cache_strategy
            [] hparams.lazy_strategy = "all" -> hparams.cache_strategy
    /\ warned = (cache_strategy # hparams.cache_strategy)

C5_Witness ==
    /\ hparams.lazy_strategy = "process"
    /\ hparams.cache_strategy = "none"
    /\ cache_strategy = "loaded"
    /\ warned
    /\ init_exc = "none"

(* C6: max_index never decreases across a prefetch or a __getitem__ of the *)
(* cached source.                                                          *)
C6_MaxIndexMonotone ==
    [][result'.op \in {"prefetch", "getitem"}
       => cached_source'.max_index >= cached_source.max_index]_vars

C6_Witness ==
    /\ result.op = "prefetch"
    /\ result.exc = "StopIteration"
    /\ cached_source.max_index >= 1

(* C7: prefetch(j) with j <= max_index changes nothing in the cached       *)
(* source (buffer, max_index, iterator) and raises nothing.                *)
C7_PrefetchNoop ==
    [][(result'.op = "prefetch" /\ result'.index <= cached_source.max_index)
       => (cached_source' = cached_source /\ result'.exc = "none")]_vars

C7_Witness ==
    /\ result.op = "prefetch"
    /\ result.index < cached_source.max_index
    /\ src.max_size = Null
    /\ cached_source.it.pos = Len(src.seq)

(* C8: over a sequential-only source, __len__ with the size unknown runs   *)
(* the full prefetch, which raises nothing and sets and returns            *)
(* dataset_size = number of elements of the source = max_index + 1.        *)
C8_FullPrefetchSize ==
    [][(result'.op = "len" /\ dataset_size = Null /\ ~supports_random_access)
       => /\ result'.exc = "none"
          /\ dataset_size' = TrueSize
          /\ result'.val = TrueSize
          /\ cached_source'.max_index + 1 = TrueSize]_vars

(* C9: _TruncatedDataSource(source, N) over L elements: the iteration ends *)
(* normally after the first min(N, L) elements; len is min(L, N), or N     *)
(* when the source has no length; __getitem__(i) raises IndexError for     *)
(* i >= N and is source[i] below.                                          *)
C9_TruncateExact ==
    comb.kind = "truncate"
    => /\ comb.state # "running"
          => /\ comb.state = "done"
             /\ comb.out = SubSeq(src.seq, 1, Min(src.max_size, Len(src.seq)))
       /\ result.op = "len"
          => /\ result.exc = "none"
             /\ result.val = IF src.random_access
                             THEN Min(Len(src.seq), src.max_size)
                             ELSE src.max_size
       /\ result.op = "getitem"
          => IF result.index >= src.max_size
             THEN result.exc = "IndexError"
             ELSE /\ result.exc = BaseGetItem(src, result.index).exc
                  /\ result.val = BaseGetItem(src, result.index).val

(* C10: for Zip and Record, len is the least member length; the iteration  *)
(* yields exactly that many elements and leaves no member iterator more    *)
(* than one element past them; the k-th element yielded is what            *)
(* __getitem__(k) returns, which holds the k-th element of every member,   *)
(* at the member's position (Zip) or under the member's name (Record).     *)
C10_ZipRecord ==
    comb.kind \in {"zip", "record"}
    => LET m == comb.members
           least(n) == /\ \A j \in DOMAIN m : n <= Len(m[j])
                       /\ \E j \in DOMAIN m : n = Len(m[j])
       IN  /\ result.op = "len" => result.exc = "none" /\ least(result.val)
           /\ comb.state = "done"
              => /\ least(Len(comb.out))
                 /\ \A j \in DOMAIN m : comb.its[j] \in {Len(comb.out), Len(comb.out) + 1}
           /\ (result.op = "getitem" /\ result.index < Len(comb.out))
              => /\ result.exc = "none"
                 /\ result.val = comb.out[result.index + 1]
           /\ (result.op = "getitem" /\ result.exc = "none")
              => \A j \in DOMAIN m :
                    IF comb.kind = "zip"
                    THEN result.val[j] = m[j][result.index + 1]
                    ELSE result.val[Keys[j]] = m[j][result.index + 1]
           /\ (result.op = "getitem" /\ result.exc = "none")
              => DOMAIN result.val = IF comb.kind = "zip" THEN DOMAIN m
                                     ELSE {Keys[j] : j \in DOMAIN m}

C10_Witness ==
    /\ comb.kind = "zip"
    /\ comb.state = "done"
    /\ Len(comb.members) = 2
    /\ Len(comb.members[1]) = 3
    /\ Len(comb.members[2]) = 2
    /\ Len(comb.out) = 2
    /\ result.op = "getitem"
    /\ result.index = 1
    /\ result.exc = "none"

(* C11: __getitem__(i) of the cached source on a buffered index returns    *)
(* the element the underlying source yields at position i.  In             *)
(* erase-after-access mode the call removes entry i and nothing else, and  *)
(* a second __getitem__(i) right after it raises KeyError; in retain mode  *)
(* the call changes nothing and a second one returns the same element.     *)
C11_BufferedGet ==
    [][/\ (result'.op = "getitem" /\ result'.index \in DOMAIN cached_source.cache)
          => /\ result'.exc = "none"
             /\ result'.val = src.seq[result'.index + 1]
             /\ IF cached_source.erase_after_access
                THEN cached_source' =
                       [cached_source EXCEPT !.cache = DictDel(@, result'.index)]
                ELSE cached_source' = cached_source
       /\ (result'.op = "getitem" /\ result'.again)
          => IF cached_source.erase_after_access
             THEN result'.exc = "KeyError"
             ELSE result'.exc = "none" /\ result'.val = result'.before]_vars

C11_Witness ==
    /\ result.op = "getitem"
    /\ result.again
    /\ result.exc = "KeyError"
    /\ cached_source.erase_after_access
    /\ cached_source.max_index >= result.index

(* C12: a __getitem__(i) of the cached source succeeds only if             *)
(* i <= max_index; every __getitem__(i) with i > max_index, also one       *)
(* issued after reset() and before any new prefetch, raises KeyError or    *)
(* IndexError and returns no data.                                         *)
C12_GetNeedsMaxIndex ==
    result.op = "getitem"
    => IF result.index <= cached_source.max_index
       THEN result.exc \in {"none", "KeyError"}
       ELSE result.exc \in {"KeyError", "IndexError"}

(* C13 as stated: with the engine fully cached, __getitem__ returns        *)
(* processed_cache[index] for the plain index and for the pair             *)
(* (index, example) alike, reads nothing from the source chain and does    *)
(* not call the processing function.                                       *)
C13_FullyCachedDirect ==
    [][(/\ result'.op \in {"getitem", "getitem_pair"}
        /\ fully_cached
        /\ result'.index \in DOMAIN processed_cache)
       => /\ result'.exc = "none"
          /\ result'.val = processed_cache[result'.index]
          /\ result'.process_calls = 0
          /\ cached_source' = cached_source]_vars

(* C13 amended: with the engine fully cached, __getitem__ with a plain     *)
(* index returns processed_cache[index], reads nothing from the source     *)
(* chain and does not call the processing function.  With a pair           *)
(* (index, example) it never looks at fully_cached or the processed cache: *)
(* it returns the example as given when parallelize_processing is false    *)
(* and applies the processing function to it once when it is true; the     *)
(* source chain is not read.                                               *)
C13_FullyCachedPlainDirect ==
    [][/\ (/\ result'.op = "getitem"
           /\ fully_cached
           /\ result'.index \in DOMAIN processed_cache)
          => /\ result'.exc = "none"
             /\ result'.val = processed_cache[result'.index]
             /\ result'.process_calls = 0
             /\ cached_source' = cached_source
       /\ result'.op = "getitem_pair"
          => /\ result'.exc = "none"
             /\ cached_source' = cached_source
             /\ IF parallelize_processing
                THEN /\ result'.val = Process(SamplerExample(result'.index))
                     /\ result'.process_calls = 1
                ELSE /\ result'.val = SamplerExample(result'.index)
                     /\ result'.process_calls = 0]_vars

C13_Witness ==
    /\ result.op = "getitem_pair"
    /\ fully_cached
    /\ lazy_strategy = "all"
    /\ cache_strategy = "processed"
    /\ parallelize_processing
    /\ result.index \in DOMAIN processed_cache
    /\ result.val = processed_cache[result.index]
    /\ result.process_calls = 1

(* C14: after the construction and after every completed                   *)
(* _add_cached_examples, _prefetch_source, __len__ and _start_iteration,   *)
(* a known dataset_size equal to the length of processed_cache implies     *)
(* fully_cached, whatever the order in which the last example and the end  *)
(* of the source arrived, and for the empty dataset too.                   *)
C14_FullyCachedWhenComplete ==
    (/\ init_exc = "none"
     /\ result.op \in {"init", "add_cached_examples", "prefetch_source", "len",
                       "start_iteration"}
     /\ result.exc = "none"
     /\ dataset_size # Null
     /\ ListLen(processed_cache) = dataset_size)
    => fully_cached

(* C15: under a lazy strategy other than none the construction wraps the   *)
(* source in a _CachedDataSource exactly when len(source) or source[0]     *)
(* raises TypeError, which every source without random access does, also   *)
(* below a truncation or a transformation; then erase_after_access is      *)
(* (cache strategy is not loaded) and the dataset size is unknown after    *)
(* the check; otherwise the source stays unwrapped and the dataset size is *)
(* its length.  Under the lazy strategy none no _CachedDataSource is made. *)
C15_ProbeWraps ==
    LET unsupported == \/ ChainLen(src).exc = "TypeError"
                       \/ ChainGetItem(src, 0).exc = "TypeError"
        after_probe == Constructed(hparams, cache_strategy, src,
                                   Probe(src, lazy_strategy))
    IN  IF lazy_strategy = "none"
        THEN /\ supports_random_access
             /\ cached_source = NewCachedSource(FALSE)
        ELSE /\ supports_random_access = ~unsupported
             /\ ~src.random_access => unsupported
             /\ IF unsupported
                THEN /\ cached_source.erase_after_access = (cache_strategy # "loaded")
                     /\ after_probe.dataset_size = Null
                     /\ (result.op = "init" /\ lazy_strategy = "all")
                        => /\ dataset_size = Null
                           /\ cached_source = NewCachedSource(cache_strategy # "loaded")
                ELSE /\ cached_source = NewCachedSource(FALSE)
                     /\ dataset_size = ChainLen(src).val
                     /\ dataset_size = TrueSize

C15_Witness ==
    /\ result.op = "init"
    /\ init_exc = "none"
    /\ lazy_strategy = "all"
    /\ cache_strategy = "processed"
    /\ ~src.random_access
    /\ src.max_size # Null
    /\ src.processed
    /\ ~supports_random_access
    /\ cached_source.erase_after_access
    /\ dataset_size = Null

(* C16: under the lazy strategy none, whatever the cache strategy and      *)
(* parallelize_processing asked for and whether or not the source has      *)
(* random access, the construction ends with processed_cache holding the   *)
(* elements of the source in iteration order, each processed once,         *)
(* dataset_size equal to its length, and fully_cached true.                *)
C16_EagerConstruction ==
    (hparams.lazy_strategy = "none" /\ result.op = "init")
    => /\ init_exc = "none"
       /\ processed_cache = [k \in 0..(TrueSize - 1) |-> Process(seq[k + 1])]
       /\ dataset_size = ListLen(processed_cache)
       /\ fully_cached

(* C17: _start_iteration calls reset() of the cached source only when the  *)
(* source has no random access.  reset() changes nothing in retain mode    *)
(* (buffer, max_index, iterator).  In erase-after-access mode it sets      *)
(* max_index to -1 and restarts the iteration, so that a prefetch(i) that  *)
(* follows buffers the elements of positions 0..i again.                   *)
C17_ResetRewinds ==
    [][result'.op = "start_iteration"
       => IF supports_random_access \/ ~cached_source.erase_after_access
          THEN cached_source' = cached_source
          ELSE /\ cached_source'.max_index = -1
               /\ cached_source'.it = NewIter
               /\ \A i \in 0..(TrueSize - 1) :
                    LET p == CachedPrefetch(src, cached_source', i, generator_stop)
                    IN  /\ p.exc = "none"
                        /\ p.cs.max_index = i
                        /\ \A k \in 0..i :
                             /\ k \in DOMAIN p.cs.cache
                             /\ p.cs.cache[k] = IF src.processed
                                                THEN Process(seq[k + 1])
                                                ELSE seq[k + 1]]_vars

C17_Witness ==
    /\ result.op = "start_iteration"
    /\ ~supports_random_access
    /\ cached_source.erase_after_access
    /\ cached_source.max_index = -1
    /\ cached_source.it = NewIter
    /\ TrueSize >= 2
    /\ DOMAIN cached_source.cache = {1}

(* C18: over a source without random access, _prefetch_source(index) never *)
(* lets StopIteration out.  When the source has more than index elements   *)
(* it returns None with max_index >= index and dataset_size as it was;     *)
(* when the source ends before index it sets dataset_size to               *)
(* max_index + 1, the number of elements of the source, and returns it.    *)
C18_PrefetchSourceSequential ==
    [][(result'.op = "prefetch_source" /\ ~supports_random_access)
       => /\ result'.exc # "StopIteration"
          /\ IF result'.index < TrueSize
             THEN /\ result'.exc = "none"
                  /\ result'.val = Null
                  /\ cached_source'.max_index >= result'.index
                  /\ dataset_size' = dataset_size
             ELSE /\ result'.exc = "none"
                  /\ dataset_size' = cached_source'.max_index + 1
                  /\ dataset_size' = TrueSize
                  /\ result'.val = dataset_size']_vars

C20_LenTrueSize ==
    [][result'.op = "len"
       => /\ result'.exc = "none"
          /\ result'.val = TrueSize
          /\ dataset_size' = TrueSize
          /\ dataset_size # Null => UNCHANGED <<engine_vars, cached_source>>]_vars

(* C21: processed_cache only grows by appending: across every step, and so *)
(* across every _add_cached_examples and _prefetch_processed, its length   *)
(* never decreases, an entry at position k stays as it is, and position k  *)
(* holds the processed example of dataset index k.                         *)
C21_ProcessedCacheAppendOnly ==
    [][/\ ListLen(processed_cache') >= ListLen(processed_cache)
       /\ DOMAIN processed_cache' = 0..(ListLen(processed_cache') - 1)
       /\ \A k \in DOMAIN processed_cache : processed_cache'[k] = processed_cache[k]
       /\ \A k \in DOMAIN processed_cache' :
            /\ k < TrueSize
            /\ processed_cache'[k] = Process(seq[k + 1])]_vars

C21_Witness ==
    /\ result.op = "add_cached_examples"
    /\ result.exc = "none"
    /\ reorder_cache # EmptyDict
    /\ ListLen(processed_cache) = 1
    /\ submitted = {0, 2}

(* C22 as stated: no _add_cached_examples call removes an entry from the   *)
(* reorder buffer; the set of its keys never shrinks.                      *)
C22_ReorderNeverShrinks ==
    [][result'.op = "add_cached_examples"
       => DOMAIN reorder_cache \subseteq DOMAIN reorder_cache']_vars

(* C22 amended: a completed _add_cached_examples removes from the reorder  *)
(* buffer exactly the entries its drain loop appends to processed_cache    *)
(* and keeps every other entry as it is; afterwards the buffer holds the   *)
(* submitted indices that are not in processed_cache yet, and not the      *)
(* index processed_cache is waiting for.                                   *)
C22_ReorderDrainsIntoCache ==
    [][(result'.op = "add_cached_examples" /\ result'.exc = "none")
       => /\ \A k \in DOMAIN reorder_cache \ DOMAIN reorder_cache' :
               /\ k \in DOMAIN processed_cache' \ DOMAIN processed_cache
               /\ processed_cache'[k] = reorder_cache[k]
          /\ \A k \in DOMAIN reorder_cache \cap DOMAIN reorder_cache' :
               reorder_cache'[k] = reorder_cache[k]
          /\ DOMAIN reorder_cache' = submitted' \ DOMAIN processed_cache'
          /\ ListLen(processed_cache') \notin DOMAIN reorder_cache']_vars

C22_Witness ==
    /\ result.op = "add_cached_examples"
    /\ result.exc = "none"
    /\ dataset_size = Null
    /\ submitted = {0, 1, 2}
    /\ ListLen(processed_cache) = 3
    /\ reorder_cache = EmptyDict

(* C23: _add_cached_examples changes the cached source only when the       *)
(* source has no random access, processing is parallelized,                *)
(* num_parallel_calls > 1, and the strategies are process and processed:   *)
(* then a completed call removes exactly the raw entries of the given      *)
(* indices and keeps max_index, the iterator and every other entry;        *)
(* otherwise the cached source is unchanged.                               *)
C23_AddDeletesSource ==
    [][result'.op = "add_cached_examples"
       => IF /\ ~supports_random_access
             /\ parallelize_processing
             /\ hparams.num_parallel_calls > 1
             /\ lazy_strategy = "process"
             /\ cache_strategy = "processed"
          THEN result'.exc = "none"
               => cached_source' =
                    [cached_source EXCEPT
                       !.cache = [k \in (DOMAIN cached_source.cache)
                                          \ (submitted' \ submitted)
                                  |-> cached_source.cache[k]]]
          ELSE cached_source' = cached_source]_vars

C23_Witness ==
    /\ result.op = "add_cached_examples"
    /\ result.exc = "none"
    /\ uses_multi_processing
    /\ ~supports_random_access
    /\ cached_source.max_index = 2
    /\ DOMAIN cached_source.cache = {0, 2}
    /\ submitted = {1}

(* C24: under the lazy strategy process over a source without random       *)
(* access the construction loads the whole source: it returns with         *)
(* dataset_size equal to the number of elements, every raw element         *)
(* buffered at its index, processed_cache empty and fully_cached false.    *)
(* Under the lazy strategy all over such a source the construction pulls   *)
(* nothing and dataset_size is unknown.                                    *)
C24_LazyProcessLoadsAll ==
    (result.op = "init" /\ ~src.random_access)
    => /\ lazy_strategy = "process"
          => /\ init_exc = "none"
             /\ dataset_size = TrueSize
             /\ cached_source.max_index = TrueSize - 1
             /\ cached_source.cache = [k \in 0..(TrueSize - 1) |-> seq[k + 1]]
             /\ processed_cache = EmptyDict
             /\ ~fully_cached
       /\ lazy_strategy = "all"
          => /\ init_exc = "none"
             /\ dataset_size = Null
             /\ cached_source.it = NewIter
             /\ cached_source.max_index = -1
             /\ cached_source.cache = EmptyDict

(* C25: once dataset_size is known it never changes again, whatever        *)
(* __getitem__, _prefetch_source, __len__, _start_iteration and            *)
(* _add_cached_examples steps follow over any number of rounds, and        *)
(* fully_cached never goes back from true to false.                        *)
C25_SizeAndFullyCachedStable ==
    [][/\ dataset_size # Null => dataset_size' = dataset_size
       /\ fully_cached => fully_cached']_vars

C25_Witness ==
    /\ result.op = "prefetch_source"
    /\ result.exc = "none"
    /\ lazy_strategy = "all"
    /\ ~supports_random_access
    /\ cached_source.erase_after_access
    /\ dataset_size = MaxLen
    /\ cached_source.max_index = 0
    /\ fully_cached

(* C26: in retain mode, after any prefetch, __getitem__ and reset calls    *)
(* the buffer has max_index + 1 entries, entry k is the k-th element of    *)
(* the underlying source, and the iterator has pulled exactly those        *)
(* elements and never goes back, so no element is pulled twice.            *)
C26_RetainBufferExact ==
    [][~cached_source.erase_after_access
       => /\ ~cached_source'.erase_after_access
          /\ ListLen(cached_source'.cache) = cached_source'.max_index + 1
          /\ DOMAIN cached_source'.cache = 0..cached_source'.max_index
          /\ \A k \in DOMAIN cached_source'.cache :
               cached_source'.cache[k] = src.seq[k + 1]
          /\ cached_source'.it.pos = cached_source'.max_index + 1
          /\ cached_source'.it.pos >= cached_source.it.pos
          /\ \A k \in DOMAIN cached_source.cache :
               cached_source'.cache[k] = cached_source.cache[k]]_vars

C26_Witness ==
    /\ result.op = "reset"
    /\ ~cached_source.erase_after_access
    /\ cached_source.max_index = 1
    /\ cached_source.it.pos = 2
    /\ Len(src.seq) = MaxLen

=============================================================================
